---- MODULE Spec2Model ----
(***************************************************************************)
(* A model of chemspipy.objects.Compound: a proxy for one ChemSpider       *)
(* record that fetches five groups of data lazily through a ChemSpider     *)
(* session (the Client) and caches them on the instance.                   *)
(*                                                                         *)
(* Python values are modelled as tagged records [type, val]; a string is   *)
(* a sequence of pieces (one-character strings, or a literal of the        *)
(* source kept whole), so that parsing and formatting are computed.        *)
(* An instance is its attribute dictionary: a function from the names of   *)
(* the attributes that are set to their values.                            *)
(***************************************************************************)
EXTENDS Integers, Sequences, FiniteSets, TLC

VARIABLES objs, okCalls, failStreak, last, thr

vars == <<objs, okCalls, failStreak, last, thr>>

-----------------------------------------------------------------------------
(* Bounds of the model *)

\* longest identifier string passed to the constructor
MaxStrLen == 3
\* successful delegation calls counted per instance and slot (a guard on the log)
MaxCalls == 2
\* consecutive failed delegation calls counted
MaxFails == 2

\* the names bound to Compound instances
Inst == {"a", "b"}
\* the threads of a host that reads one instance concurrently
Threads == {"t1", "t2"}
\* the identifiers the runs use
Ids == {2, 236}
\* the remote data changes over time: the versions the Client may answer from
Versions == {"v1", "v2"}
\* characters of identifier strings: digits, a sign, a blank, a non-digit
Alphabet == {"2", "3", "6", "+", " ", "x"}

-----------------------------------------------------------------------------
(* Python values *)

PyIntV(n) == [type |-> "int", val |-> n]
PyStrV(s) == [type |-> "str", val |-> s]
PyBoolV(b) == [type |-> "bool", val |-> b]
PyNone == [type |-> "NoneType", val |-> <<>>]
PyRef(i) == [type |-> "Compound", val |-> i]
PyError(kind, what) == [type |-> kind, val |-> what]
\* data handed over by the Client, passed through as it is
PyData(kind, d) == [type |-> kind, val |-> d]

Digits == <<"0", "1", "2", "3", "4", "5", "6", "7", "8", "9">>

IsDigit(c) == \E d \in 1..10 : Digits[d] = c

DigitVal(c) == (CHOOSE d \in 1..10 : Digits[d] = c) - 1

RECURSIVE LStrip(_)
LStrip(s) == IF s # <<>> /\ Head(s) = " " THEN LStrip(Tail(s)) ELSE s

RECURSIVE RStrip(_)
RStrip(s) ==
    IF s # <<>> /\ s[Len(s)] = " " THEN RStrip(SubSeq(s, 1, Len(s) - 1)) ELSE s

RECURSIVE DigitsVal(_)
DigitsVal(s) ==
    IF s = <<>> THEN 0
    ELSE 10 * DigitsVal(SubSeq(s, 1, Len(s) - 1)) + DigitVal(s[Len(s)])

\* int(s) of a string: blanks stripped, an optional sign, then decimal digits only
IntOfStr(s) ==
    LET t == RStrip(LStrip(s))
        signed == t # <<>> /\ Head(t) \in {"-", "+"}
        body == IF signed THEN Tail(t) ELSE t
    IN  IF body = <<>> \/ \E k \in 1..Len(body) : ~IsDigit(body[k])
        THEN [raised |-> TRUE, value |-> PyError("ValueError", s)]
        ELSE [raised |-> FALSE,
              value |-> PyIntV(IF signed /\ Head(t) = "-"
                               THEN 0 - DigitsVal(body) ELSE DigitsVal(body))]

\* int(x): an integer is itself, a string is parsed, None is a TypeError
PyInt(x) ==
    CASE x.type = "int" -> [raised |-> FALSE, value |-> x]
      [] x.type = "str" -> IntOfStr(x.val)
      [] OTHER -> [raised |-> TRUE, value |-> PyError("TypeError", x.type)]

RECURSIVE DecDigits(_)
DecDigits(n) ==
    IF n < 10 THEN <<Digits[n + 1]>>
    ELSE DecDigits(n \div 10) \o <<Digits[(n % 10) + 1]>>

\* '%s' % n and '%r' % n of an integer: its decimal digits, signed when negative
DecStr(n) == IF n < 0 THEN <<"-">> \o DecDigits(0 - n) ELSE DecDigits(n)

-----------------------------------------------------------------------------
(* The Client: the ChemSpider session the proxy delegates to *)

Slots == {"_compound_info", "_extended_compound_info", "mol_2d", "mol_3d", "image"}

BasicKeys == {"smiles", "inchi", "inchikey"}

ExtendedKeys ==
    {"molecular_formula", "inchi", "inchikey", "average_mass", "molecular_weight",
     "monoisotopic_mass", "nominal_mass", "alogp", "xlogp", "common_name"}

\* the keys a mapping returned by the Client is meant to hold
MethodKeys(method) ==
    IF method = "get_compound_info" THEN BasicKeys ELSE ExtendedKeys

\* the sets of keys a returned mapping may lack in the runs
MissingChoices == {{}, {"alogp", "inchi"}}

\* what the Client returns for a request in version v of the remote data,
\* a mapping lacking the keys in missing
ClientValue(call, v, missing) ==
    CASE call.method \in {"get_compound_info", "get_extended_compound_info"} ->
           PyData("dict", [k \in MethodKeys(call.method) \ missing |->
                              PyData("item", <<call.method, call.csid, k, v>>)])
      [] call.method = "get_record_mol" ->
           PyData("mol", <<call.csid, call.calc3d, v>>)
      [] OTHER -> PyData("png", <<call.csid, v>>)

ClientRaises == [raised |-> TRUE, v |-> 0, missing |-> {}]

\* the ways the Client may answer one request: it raises, or it returns a value
Answers(versions, missings) ==
    {ClientRaises} \cup
    {[raised |-> FALSE, v |-> v, missing |-> m] : v \in versions, m \in missings}

\* the outcome of one request under answer ans
ClientCall(call, ans) ==
    IF ans.raised
    THEN [raised |-> TRUE, value |-> PyError("ClientError", call.method)]
    ELSE [raised |-> FALSE, value |-> ClientValue(call, ans.v, ans.missing)]

-----------------------------------------------------------------------------
(* class Compound *)

Client == [type |-> "ChemSpider", val |-> "cs"]

\* the result of evaluating an expression on an instance: the instance
\* afterwards, whether it raised, the value returned or raised, and the
\* delegation calls made on the way
Result(self, raised, value, calls) ==
    [self |-> self, raised |-> raised, value |-> value, calls |-> calls]

\* mutant: __init__ keeps csid as it was passed
NewCompoundRaw(cs, csid) ==
    Result(("_cs" :> cs) @@ ("_csid" :> csid), FALSE, PyNone, <<>>)

\* mutant: __init__ presets the thumbnail attribute to None
NewCompoundPreset(cs, csid) ==
    LET n == PyInt(csid)
    IN  IF n.raised THEN Result(<<>>, TRUE, n.value, <<>>)
        ELSE Result(("_cs" :> cs) @@ ("_csid" :> n.value) @@ ("memo:image" :> PyNone),
                    FALSE, PyNone, <<>>)

\* Compound(cs, csid): the attributes set by __init__, or the error of int(csid)
NewCompound(cs, csid) ==
    LET n == PyInt(csid)
    IN  IF n.raised THEN Result(<<>>, TRUE, n.value, <<>>)
        ELSE Result(("_cs" :> cs) @@ ("_csid" :> n.value), FALSE, PyNone, <<>>)

\* self.csid
GetCsid(self) == Result(self, FALSE, self["_csid"], <<>>)

\* mutant: equality compares every attribute of the two instances
CompoundEqWhole(self, other, heap) ==
    Result(self, FALSE,
           PyBoolV(other.type = "Compound" /\ DOMAIN heap[other.val] = DOMAIN self
                   /\ heap[other.val] = self),
           <<>>)

\* mutant: equality compares the identifier with the other object itself
CompoundEqBare(self, other, heap) ==
    Result(self, FALSE,
           PyBoolV(other.type = "int" /\ GetCsid(self).value.val = other.val), <<>>)

\* self == other
CompoundEq(self, other, heap) ==
    Result(self, FALSE,
           PyBoolV(/\ other.type = "Compound"
                   /\ GetCsid(self).value.val = GetCsid(heap[other.val]).value.val),
           <<>>)

\* mutant: repr keeps the string it built in an attribute of the instance
CompoundReprKept(self) ==
    LET t == PyStrV(<<"Compound(">> \o DecStr(GetCsid(self).value.val) \o <<")">>)
    IN  Result(("_repr" :> t) @@ self, FALSE, t, <<>>)

\* repr(self)
CompoundRepr(self) ==
    Result(self, FALSE,
           PyStrV(<<"Compound(">> \o DecStr(GetCsid(self).value.val) \o <<")">>), <<>>)

UrlTemplate == "http://www.chemspider.com/ImagesHandler.ashx?id="

\* mutant: another scheme in the template
ImageUrlHttps(self) ==
    Result(self, FALSE,
           PyStrV(<<"https://www.chemspider.com/ImagesHandler.ashx?id=">>
                  \o DecStr(GetCsid(self).value.val)), <<>>)

\* self.image_url
ImageUrl(self) ==
    Result(self, FALSE, PyStrV(<<UrlTemplate>> \o DecStr(GetCsid(self).value.val)), <<>>)

\* mutant: the thumbnail is requested without the identifier of the instance
DelegationDefaultId(self, s) ==
    LET id == GetCsid(self).value.val
    IN  CASE s = "_compound_info" ->
               [slot |-> s, method |-> "get_compound_info", csid |-> id, calc3d |-> "unset"]
          [] s = "_extended_compound_info" ->
               [slot |-> s, method |-> "get_extended_compound_info", csid |-> id,
                calc3d |-> "unset"]
          [] s = "mol_2d" ->
               [slot |-> s, method |-> "get_record_mol", csid |-> id, calc3d |-> "False"]
          [] s = "mol_3d" ->
               [slot |-> s, method |-> "get_record_mol", csid |-> id, calc3d |-> "True"]
          [] s = "image" ->
               [slot |-> s, method |-> "get_compound_thumbnail", csid |-> 0,
                calc3d |-> "unset"]

\* the request the body of a slot's function sends to the Client
Delegation(self, s) ==
    LET id == GetCsid(self).value.val
    IN  CASE s = "_compound_info" ->
               [slot |-> s, method |-> "get_compound_info", csid |-> id, calc3d |-> "unset"]
          [] s = "_extended_compound_info" ->
               [slot |-> s, method |-> "get_extended_compound_info", csid |-> id,
                calc3d |-> "unset"]
          [] s = "mol_2d" ->
               [slot |-> s, method |-> "get_record_mol", csid |-> id, calc3d |-> "False"]
          [] s = "mol_3d" ->
               [slot |-> s, method |-> "get_record_mol", csid |-> id, calc3d |-> "True"]
          [] s = "image" ->
               [slot |-> s, method |-> "get_compound_thumbnail", csid |-> id,
                calc3d |-> "unset"]

\* mutant: the body catches the Client's error and returns None
SlotBodySwallow(self, s, ans) ==
    LET call == Delegation(self, s)
        r == ClientCall(call, ans)
    IN  Result(self, FALSE, IF r.raised THEN PyNone ELSE r.value,
               <<call @@ [ok |-> ~r.raised, ret |-> r.value]>>)

\* mutant: the body asks the Client a second time when the first request fails
SlotBodyRetry(self, s, ans) ==
    LET call == Delegation(self, s)
        r == ClientCall(call, ans)
        c == call @@ [ok |-> ~r.raised, ret |-> r.value]
    IN  Result(self, r.raised, r.value, IF r.raised THEN <<c, c>> ELSE <<c>>)

\* the body of a slot's function: one request, its value returned or its
\* error raised; the request is logged with what the Client answered
SlotBody(self, s, ans) ==
    LET call == Delegation(self, s)
        r == ClientCall(call, ans)
    IN  Result(self, r.raised, r.value, <<call @@ [ok |-> ~r.raised, ret |-> r.value]>>)

\* mutant: mol_2d is defined under a plain property
SlotDecoratorPlain(s) == IF s = "mol_2d" THEN "property" ELSE "memoized_property"

\* mutant: image is defined under a plain property
SlotDecoratorPlainImage(s) == IF s = "image" THEN "property" ELSE "memoized_property"

\* the decorator each slot's function is defined under
SlotDecorator(s) == "memoized_property"

\* the instance attribute a memoized property keeps its value in
CacheAttr(s) ==
    CASE s = "_compound_info" -> "memo:_compound_info"
      [] s = "_extended_compound_info" -> "memo:_extended_compound_info"
      [] s = "mol_2d" -> "memo:mol_2d"
      [] s = "mol_3d" -> "memo:mol_3d"
      [] s = "image" -> "memo:image"

Populated(self, s) == CacheAttr(s) \in DOMAIN self

\* a memoized property: the stored value when there is one; otherwise the
\* function runs, and its value is stored unless it raised
MemoizedGet(self, s, ans) ==
    IF Populated(self, s)
    THEN Result(self, FALSE, self[CacheAttr(s)], <<>>)
    ELSE LET r == SlotBody(self, s, ans)
         IN  IF r.raised THEN r
             ELSE Result((CacheAttr(s) :> r.value) @@ r.self, FALSE, r.value, r.calls)

\* a plain property: the function runs on every read
PropertyGet(self, s, ans) == SlotBody(self, s, ans)

\* mutant: every read of a slot asks the Client and stores the new value
GetSlotRefetch(self, s, ans) ==
    LET r == SlotBody(self, s, ans)
        rest == DOMAIN self \ {CacheAttr(s)}
    IN  IF r.raised THEN r
        ELSE Result((CacheAttr(s) :> r.value) @@ [a \in rest |-> self[a]],
                    FALSE, r.value, r.calls)

\* mutant: a failed fetch drops everything the instance has cached
GetSlotResetOnError(self, s, ans) ==
    LET r == IF SlotDecorator(s) = "memoized_property"
             THEN MemoizedGet(self, s, ans) ELSE PropertyGet(self, s, ans)
    IN  IF r.raised
        THEN Result([a \in {"_cs", "_csid"} |-> self[a]], TRUE, r.value, r.calls)
        ELSE r

\* self.<slot>
GetSlot(self, s, ans) ==
    IF SlotDecorator(s) = "memoized_property"
    THEN MemoizedGet(self, s, ans)
    ELSE PropertyGet(self, s, ans)

Fields ==
    {"molecular_formula", "smiles", "stdinchi", "stdinchikey", "inchi", "inchikey",
     "average_mass", "molecular_weight", "monoisotopic_mass", "nominal_mass",
     "alogp", "xlogp", "common_name"}

\* mutant: inchi and inchikey read the basic info, as stdinchi and stdinchikey do
FieldSlotConfused(f) ==
    IF f \in {"smiles", "stdinchi", "stdinchikey", "inchi", "inchikey"}
    THEN "_compound_info" ELSE "_extended_compound_info"

\* the slot a field property reads
FieldSlot(f) ==
    IF f \in {"smiles", "stdinchi", "stdinchikey"}
    THEN "_compound_info" ELSE "_extended_compound_info"

\* mutant: stdinchikey looks up the key of stdinchi
FieldKeyConfused(f) ==
    CASE f = "stdinchi" -> "inchi"
      [] f = "stdinchikey" -> "inchi"
      [] OTHER -> f

\* the key a field property looks up
FieldKey(f) ==
    CASE f = "stdinchi" -> "inchi"
      [] f = "stdinchikey" -> "inchikey"
      [] OTHER -> f

\* mutant: d.get(k), None for a missing key
GetItemDefault(d, k) ==
    [raised |-> FALSE, value |-> IF k \in DOMAIN d.val THEN d.val[k] ELSE PyNone]

\* d[k] of a mapping
GetItem(d, k) ==
    IF k \in DOMAIN d.val THEN [raised |-> FALSE, value |-> d.val[k]]
    ELSE [raised |-> TRUE, value |-> PyError("KeyError", k)]

\* mutant: a missing key drops the cached mapping, to fetch it afresh next time
GetFieldEvict(self, f, ans) ==
    LET d == GetSlot(self, FieldSlot(f), ans)
    IN  IF d.raised THEN d
        ELSE LET x == GetItem(d.value, FieldKey(f))
                 kept == DOMAIN d.self \ {CacheAttr(FieldSlot(f))}
             IN  Result(IF x.raised THEN [a \in kept |-> d.self[a]] ELSE d.self,
                        x.raised, x.value, d.calls)

\* self.<field>
GetField(self, f, ans) ==
    LET d == GetSlot(self, FieldSlot(f), ans)
    IN  IF d.raised THEN d
        ELSE LET x == GetItem(d.value, FieldKey(f))
             IN  Result(d.self, x.raised, x.value, d.calls)

\* mutant: the hook asks the Client itself
ReprPngDirect(self, ans) == SlotBody(self, "image", ans)

\* self._repr_png_()
ReprPng(self, ans) == GetSlot(self, "image", ans)

-----------------------------------------------------------------------------
(* The state machine: a caller constructs instances and uses them *)

\* strings of at most n characters
StrsUpTo(n) == UNION {[1..k -> Alphabet] : k \in 0..n}

\* the values passed as csid to the constructor: integers, None, and the
\* strings that int() rejects or reads as one of the identifiers
CsidArgs ==
    {PyIntV(n) : n \in Ids} \cup {PyNone} \cup
    {PyStrV(s) : s \in {t \in StrsUpTo(MaxStrLen) :
                          IntOfStr(t).raised \/ IntOfStr(t).value.val \in Ids}}

\* the values a Compound is compared with that are no Compound
NonCompounds ==
    {PyIntV(n) : n \in Ids} \cup {PyStrV(DecStr(n)) : n \in Ids} \cup {PyNone}

NoCalls == [i \in Inst |-> [s \in Slots |-> 0]]

NoStreak == [inst |-> "none", slot |-> "none", n |-> 0]

\* a thread that is in no property read
Idle == [at |-> "idle", inst |-> "none", slot |-> "none", val |-> PyNone]

Init ==
    /\ objs = <<>>
    /\ okCalls = NoCalls
    /\ failStreak = NoStreak
    /\ last = [op |-> "none", inst |-> "none", arg |-> PyNone, raised |-> FALSE,
               value |-> PyNone, calls |-> <<>>]
    /\ thr = [t \in Threads |-> Idle]

\* the calls of a sequence that returned, for slot s
OkCount(calls, s) == Cardinality({k \in 1..Len(calls) : calls[k].ok /\ calls[k].slot = s})

\* the failures in a row for one slot of one instance, after an operation on i
StreakAfter(i, calls) ==
    IF calls = <<>> \/ calls[Len(calls)].ok THEN NoStreak
    ELSE LET s == calls[Len(calls)].slot
         IN  [inst |-> i, slot |-> s,
              n |-> IF failStreak.inst = i /\ failStreak.slot = s
                    THEN failStreak.n + 1 ELSE 1]

\* operation op on instance i, with argument arg, had result r
Observe(i, op, arg, r) ==
    /\ \A s \in Slots : okCalls[i][s] + OkCount(r.calls, s) <= MaxCalls
    /\ StreakAfter(i, r.calls).n <= MaxFails
    /\ objs' = [objs EXCEPT ![i] = r.self]
    /\ okCalls' = [okCalls EXCEPT ![i] = [s \in Slots |-> @[s] + OkCount(r.calls, s)]]
    /\ failStreak' = StreakAfter(i, r.calls)
    /\ last' = [op |-> op, inst |-> i, arg |-> arg, raised |-> r.raised,
                value |-> r.value, calls |-> r.calls]
    /\ UNCHANGED thr

\* i = Compound(cs, x)
Construct(i, x) ==
    /\ i \notin DOMAIN objs
    /\ LET r == NewCompound(Client, x)
       IN  /\ objs' = IF r.raised THEN objs ELSE (i :> r.self) @@ objs
           /\ last' = [op |-> "__init__", inst |-> i, arg |-> x, raised |-> r.raised,
                       value |-> r.value, calls |-> r.calls]
    /\ failStreak' = NoStreak
    /\ UNCHANGED <<okCalls, thr>>

ReadCsid(i) ==
    /\ i \in DOMAIN objs
    /\ Observe(i, "csid", PyNone, GetCsid(objs[i]))

ReadImageUrl(i) ==
    /\ i \in DOMAIN objs
    /\ Observe(i, "image_url", PyNone, ImageUrl(objs[i]))

CallRepr(i) ==
    /\ i \in DOMAIN objs
    /\ Observe(i, "__repr__", PyNone, CompoundRepr(objs[i]))

\* i == other
CallEq(i, other) ==
    /\ i \in DOMAIN objs
    /\ other.type = "Compound" => other.val \in DOMAIN objs
    /\ Observe(i, "__eq__", other, CompoundEq(objs[i], other, objs))

\* the Client answers only when it is asked: a step that made no request
\* is one step, whatever the Client would have answered
Asked(r, ans) == r.calls # <<>> \/ ans = ClientRaises

\* mutant: the values fetched are kept per identifier, for every instance of it
ReadSlotShared(i, s, ans) ==
    /\ i \in DOMAIN objs
    /\ \E r \in {GetSlot(objs[i], s, ans)} :
         /\ Asked(r, ans)
         /\ \A t \in Slots : okCalls[i][t] + OkCount(r.calls, t) <= MaxCalls
         /\ StreakAfter(i, r.calls).n <= MaxFails
         /\ objs' = [j \in DOMAIN objs |->
                       IF j = i THEN r.self
                       ELSE IF objs[j]["_csid"] = objs[i]["_csid"] /\ Populated(r.self, s)
                            THEN (CacheAttr(s) :> r.self[CacheAttr(s)]) @@ objs[j]
                            ELSE objs[j]]
         /\ okCalls' = [okCalls EXCEPT ![i] = [t \in Slots |-> @[t] + OkCount(r.calls, t)]]
         /\ failStreak' = StreakAfter(i, r.calls)
         /\ last' = [op |-> s, inst |-> i, arg |-> PyNone, raised |-> r.raised,
                     value |-> r.value, calls |-> r.calls]
         /\ UNCHANGED thr

ReadSlot(i, s, ans) ==
    /\ i \in DOMAIN objs
    /\ \E r \in {GetSlot(objs[i], s, ans)} :
         Asked(r, ans) /\ Observe(i, s, PyNone, r)

ReadField(i, f, ans) ==
    /\ i \in DOMAIN objs
    /\ \E r \in {GetField(objs[i], f, ans)} :
         Asked(r, ans) /\ Observe(i, f, PyNone, r)

CallReprPng(i, ans) ==
    /\ i \in DOMAIN objs
    /\ \E r \in {ReprPng(objs[i], ans)} :
         Asked(r, ans) /\ Observe(i, "_repr_png_", PyNone, r)

\* the steps of a caller that holds one name, the Client answering from any
\* version, with complete mappings or mappings lacking keys
Next ==
    \E i \in {"a"} :
        \/ \E x \in CsidArgs : Construct(i, x)
        \/ ReadCsid(i)
        \/ ReadImageUrl(i)
        \/ CallRepr(i)
        \/ \E other \in {PyRef(i)} \cup NonCompounds : CallEq(i, other)
        \/ \E s \in Slots, ans \in Answers(Versions, MissingChoices) : ReadSlot(i, s, ans)
        \/ \E f \in Fields, ans \in Answers(Versions, MissingChoices) : ReadField(i, f, ans)
        \/ \E ans \in Answers(Versions, MissingChoices) : CallReprPng(i, ans)

\* one instance, used in every way, the Client answering in every way
Spec == Init /\ [][Next]_vars

\* the identifiers of the two instances: equal, and different either way
PairIds == {<<2, 2>>, <<2, 236>>, <<236, 2>>}

InitPair ==
    /\ \E p \in PairIds :
         objs = ("a" :> NewCompound(Client, PyIntV(p[1])).self)
                @@ ("b" :> NewCompound(Client, PyStrV(DecStr(p[2]))).self)
    /\ okCalls = NoCalls
    /\ failStreak = NoStreak
    /\ last = [op |-> "none", inst |-> "none", arg |-> PyNone, raised |-> FALSE,
               value |-> PyNone, calls |-> <<>>]
    /\ thr = [t \in Threads |-> Idle]

\* the steps of a caller that holds two instances and compares them, the
\* Client answering from one version with complete mappings
NextPair ==
    \E i \in Inst :
        \/ ReadCsid(i)
        \/ CallRepr(i)
        \/ \E other \in {PyRef(j) : j \in Inst} \cup NonCompounds : CallEq(i, other)
        \/ \E s \in Slots, ans \in Answers({"v1"}, {{}}) : ReadSlot(i, s, ans)

\* two instances of equal or different identifiers sharing the Client
SpecPair == InitPair /\ [][NextPair]_vars

-----------------------------------------------------------------------------
(* Two threads reading the slots of one instance: the read of a memoized
   property is a check, then the call, then the store, with no lock held *)

\* thread t starts to read slot s of i: a stored value is returned at once;
\* otherwise the slot's function is to run
ThreadBegin(t, i, s) ==
    /\ thr[t].at = "idle"
    /\ i \in DOMAIN objs
    /\ IF SlotDecorator(s) = "memoized_property" /\ Populated(objs[i], s)
       THEN /\ last' = [op |-> s, inst |-> i, arg |-> PyNone, raised |-> FALSE,
                        value |-> objs[i][CacheAttr(s)], calls |-> <<>>]
            /\ UNCHANGED thr
       ELSE /\ thr' = [thr EXCEPT ![t] = [at |-> "call", inst |-> i, slot |-> s,
                                          val |-> PyNone]]
            /\ UNCHANGED last
    /\ UNCHANGED <<objs, okCalls, failStreak>>

\* thread t runs the slot's function: the error is raised to its caller, or
\* the value is held to be stored (returned as it is under a plain property)
ThreadCall(t, ans) ==
    /\ thr[t].at = "call"
    /\ LET i == thr[t].inst
           s == thr[t].slot
       IN  \E r \in {SlotBody(objs[i], s, ans)} :
             /\ okCalls[i][s] + OkCount(r.calls, s) <= MaxCalls
             /\ okCalls' = [okCalls EXCEPT ![i][s] = @ + OkCount(r.calls, s)]
             /\ thr' = [thr EXCEPT ![t] =
                          IF r.raised \/ SlotDecorator(s) # "memoized_property"
                          THEN Idle
                          ELSE [at |-> "store", inst |-> i, slot |-> s, val |-> r.value]]
             /\ last' = [op |-> s, inst |-> i, arg |-> PyNone, raised |-> r.raised,
                         value |-> r.value, calls |-> r.calls]
    /\ UNCHANGED <<objs, failStreak>>

\* thread t stores the value it fetched and returns it
ThreadStore(t) ==
    /\ thr[t].at = "store"
    /\ LET i == thr[t].inst
           s == thr[t].slot
           rest == DOMAIN objs[i] \ {CacheAttr(s)}
       IN  objs' = [objs EXCEPT ![i] = (CacheAttr(s) :> thr[t].val)
                                        @@ [a \in rest |-> objs[i][a]]]
    /\ thr' = [thr EXCEPT ![t] = Idle]
    /\ UNCHANGED <<okCalls, failStreak, last>>

\* the slots the two threads read: a record slot and two data slots
ThreadSlots == {"_compound_info", "mol_2d", "image"}

InitThreads ==
    /\ objs = ("a" :> NewCompound(Client, PyIntV(236)).self)
    /\ okCalls = NoCalls
    /\ failStreak = NoStreak
    /\ last = [op |-> "none", inst |-> "none", arg |-> PyNone, raised |-> FALSE,
               value |-> PyNone, calls |-> <<>>]
    /\ thr = [t \in Threads |-> Idle]

NextThreads ==
    \E t \in Threads :
        \/ \E s \in ThreadSlots : ThreadBegin(t, "a", s)
        \/ \E ans \in Answers(Versions, {{}}) : ThreadCall(t, ans)
        \/ ThreadStore(t)

\* one instance read by two threads, every interleaving of their steps
SpecThreads == InitThreads /\ [][NextThreads]_vars

-----------------------------------------------------------------------------
(* What the specification says of the operations, stated apart from the model *)

BasicFields == {"smiles", "stdinchi", "stdinchikey"}

ExtendedFields == Fields \ BasicFields

\* the cache slot an operation reads, by the specification's table of accessors
SlotOfOp(op) ==
    CASE op \in Slots -> op
      [] op = "_repr_png_" -> "image"
      [] op \in BasicFields -> "_compound_info"
      [] op \in ExtendedFields -> "_extended_compound_info"
      [] OTHER -> "none"

\* the delegation calls of a step that were made for slot s
CallsFor(calls, s) == {k \in 1..Len(calls) : calls[k].slot = s}

\* the value slot s of instance i holds
Stored(heap, i, s) == heap[i][CacheAttr(s)]

\* C1: on one instance used by one caller, the Client is called successfully
\* at most once for each of the five slots: once a call for a slot has
\* returned, no later read of the slot, or of a field or hook projected from
\* it, makes another call for it.
C1_AtMostOnce ==
    [][\A i \in Inst, s \in Slots :
          /\ okCalls'[i][s] <= 1
          /\ (okCalls[i][s] >= 1 /\ last'.inst = i) => CallsFor(last'.calls, s) = {}]_vars

\* a basic-info field was read from the populated slot without a call
C1_Witness ==
    /\ last.op = "smiles" /\ ~last.raised /\ last.calls = <<>>
    /\ okCalls["a"]["_compound_info"] = 1
    /\ okCalls["a"]["image"] = 1

\* C2: when the delegation call for a slot raises, the slot is unpopulated
\* afterwards, and the next access to the slot calls the Client again,
\* after one failure and after several in a row.
C2_FailureNotCached ==
    [][/\ \A k \in 1..Len(last'.calls) :
            ~last'.calls[k].ok =>
                /\ last'.raised
                /\ ~Populated(objs'[last'.inst], last'.calls[k].slot)
       /\ (failStreak.n >= 1 /\ last'.inst = failStreak.inst
           /\ SlotOfOp(last'.op) = failStreak.slot)
          => /\ Len(last'.calls) = 1
             /\ last'.calls[1].slot = failStreak.slot]_vars

\* a slot failed twice in a row and is still unpopulated
C2_Witness ==
    /\ failStreak.n = MaxFails
    /\ failStreak.slot = "_extended_compound_info"
    /\ ~Populated(objs[failStreak.inst], failStreak.slot)
    /\ Populated(objs[failStreak.inst], "mol_2d")

\* C3: the five slots of an instance are independent: a read of an
\* unpopulated slot makes that slot's own delegation call whichever other
\* slots are populated, and a step changes no slot but the one it reads.
C3_SlotsIndependent ==
    [][\A i \in DOMAIN objs, s \in Slots :
          /\ (last'.inst = i /\ SlotOfOp(last'.op) = s /\ ~Populated(objs[i], s))
             => /\ Len(last'.calls) = 1
                /\ last'.calls[1].slot = s
                /\ \A t \in Slots \ {s} : okCalls'[i][t] = okCalls[i][t]
          /\ (last'.inst # i \/ SlotOfOp(last'.op) # s)
             => /\ Populated(objs'[i], s) = Populated(objs[i], s)
                /\ Populated(objs[i], s) => Stored(objs', i, s) = Stored(objs, i, s)]_vars

\* extended info was fetched while basic info and the 2D file were held, the
\* 3D file not
C3_Witness ==
    /\ last.op = "inchi" /\ Len(last.calls) = 1 /\ last.calls[1].ok
    /\ Populated(objs["a"], "_compound_info")
    /\ Populated(objs["a"], "_extended_compound_info")
    /\ Populated(objs["a"], "mol_2d")
    /\ ~Populated(objs["a"], "mol_3d")

\* C4: a slot's state is monotone: after a successful fetch the slot is
\* populated, and no operation (a field read, an equality test, repr, the
\* display hook, a failed fetch, a missing key) returns a populated slot to
\* unpopulated or changes what it holds.
C4_Monotone ==
    [][\A i \in DOMAIN objs, s \in Slots :
          /\ okCalls'[i][s] >= 1 => Populated(objs'[i], s)
          /\ Populated(objs[i], s)
             => /\ Populated(objs'[i], s)
                /\ Stored(objs', i, s) = Stored(objs, i, s)]_vars

\* a key was missing from the populated extended info, and the slot stayed
C4_Witness ==
    /\ last.op = "alogp" /\ last.raised /\ last.calls = <<>>
    /\ Populated(objs["a"], "_extended_compound_info")
    /\ Populated(objs["a"], "image")

\* C5: equality depends on type and identifier only: a == b holds exactly
\* when b is a Compound of the same csid, whatever slots either side has
\* populated; a Compound equals no integer, string or None.
C5_EqByTypeAndId ==
    /\ last.op = "__eq__"
       => /\ last.value.type = "bool"
          /\ last.value.val =
                 IF last.arg.type = "Compound"
                 THEN objs[last.inst]["_csid"] = objs[last.arg.val]["_csid"]
                 ELSE FALSE
    /\ \A i \in DOMAIN objs :
          /\ \A j \in DOMAIN objs :
                CompoundEq(objs[i], PyRef(j), objs).value.val
                    = (objs[i]["_csid"] = objs[j]["_csid"])
          /\ \A x \in NonCompounds : ~CompoundEq(objs[i], x, objs).value.val

\* two instances of one identifier compared equal with different slots populated
C5_Witness ==
    /\ last.op = "__eq__" /\ last.inst = "a" /\ last.arg = PyRef("b")
    /\ last.value.val
    /\ Populated(objs["a"], "image") /\ ~Populated(objs["b"], "image")
    /\ Populated(objs["b"], "mol_3d") /\ ~Populated(objs["a"], "mol_3d")

BlankStrs == UNION {[1..k -> {" "}] : k \in 0..MaxStrLen}

\* the strings that denote the integer n: its decimal digits, an optional
\* plus sign before them, blanks around
Numerals(n) ==
    {l \o sg \o DecStr(n) \o r : l \in BlankStrs, sg \in {<<>>, <<"+">>}, r \in BlankStrs}

\* C6: constructing from an integer, or from a string denoting one, gives a
\* proxy whose csid is that integer; constructing from anything else raises
\* and gives no proxy.
C6_Construction ==
    last.op = "__init__" =>
        LET x == last.arg
            made(n) == /\ ~last.raised
                       /\ last.inst \in DOMAIN objs
                       /\ objs[last.inst]["_csid"].type = "int"
                       /\ objs[last.inst]["_csid"].val = n
            failed == last.raised /\ last.inst \notin DOMAIN objs
        IN  CASE x.type = "int" -> made(x.val)
              [] x.type = "str" ->
                   IF \E n \in Ids : x.val \in Numerals(n)
                   THEN \A n \in Ids : x.val \in Numerals(n) => made(n)
                   ELSE failed /\ last.value.type = "ValueError"
              [] OTHER -> failed

\* the string "236" gave the identifier 236
C6_Witness ==
    /\ last.op = "__init__" /\ ~last.raised
    /\ last.arg = PyStrV(<<"2", "3", "6">>)
    /\ objs["a"]["_csid"] = PyIntV(236)

\* C7: the identifier never changes after construction, and every
\* delegation call passes it to the Client.
C7_CsidImmutable ==
    [][/\ \A i \in DOMAIN objs :
            i \in DOMAIN objs' /\ objs'[i]["_csid"] = objs[i]["_csid"]
       /\ \A k \in 1..Len(last'.calls) :
            last'.calls[k].csid = objs'[last'.inst]["_csid"].val]_vars

\* the 3D file of 236 was requested after other slots were populated
C7_Witness ==
    /\ last.op = "mol_3d" /\ Len(last.calls) = 1 /\ last.calls[1].csid = 236
    /\ objs["a"]["_csid"] = PyIntV(236)
    /\ Populated(objs["a"], "_compound_info")
    /\ Populated(objs["a"], "image")

\* C8: when the extended-info mapping lacks a key, reading that field raises
\* a KeyError, yet the slot is populated by the fetch and stays so: the
\* fields that are present are read from it, and no read of a present or
\* missing field calls the Client again.
C8_MissingKey ==
    [][LET i == last'.inst
           f == last'.op
           e == "_extended_compound_info"
       IN  f \in ExtendedFields =>
             IF Populated(objs[i], e)
             THEN /\ last'.calls = <<>>
                  /\ objs' = objs
                  /\ IF f \in DOMAIN Stored(objs, i, e).val
                     THEN ~last'.raised /\ last'.value = Stored(objs, i, e).val[f]
                     ELSE last'.raised /\ last'.value.type = "KeyError"
             ELSE /\ Len(last'.calls) = 1
                  /\ last'.calls[1].ok
                     => /\ Populated(objs'[i], e)
                        /\ IF f \in DOMAIN Stored(objs', i, e).val
                           THEN ~last'.raised
                           ELSE last'.raised /\ last'.value.type = "KeyError"]_vars

\* a present field was read without a call from a mapping that lacks alogp
C8_Witness ==
    /\ last.op = "common_name" /\ ~last.raised /\ last.calls = <<>>
    /\ Populated(objs["a"], "_extended_compound_info")
    /\ "alogp" \notin DOMAIN Stored(objs, "a", "_extended_compound_info").val
    /\ last.value = Stored(objs, "a", "_extended_compound_info").val["common_name"]

\* the URL of the image of record n, written out
ExpectedUrl(n) ==
    <<"http://www.chemspider.com/ImagesHandler.ashx?id=">>
    \o (CASE n = 2 -> <<"2">> [] n = 236 -> <<"2", "3", "6">>)

\* C9: reading image_url makes no delegation call and changes no slot, and
\* gives the fixed template followed by the identifier in decimal.
C9_ImageUrl ==
    [][last'.op = "image_url" =>
          /\ last'.calls = <<>>
          /\ objs' = objs
          /\ okCalls' = okCalls
          /\ ~last'.raised
          /\ last'.value.type = "str"
          /\ last'.value.val = ExpectedUrl(objs[last'.inst]["_csid"].val)]_vars

\* the URL of record 236 was read with nothing fetched
C9_Witness ==
    /\ last.op = "image_url"
    /\ last.value.val = <<"http://www.chemspider.com/ImagesHandler.ashx?id=", "2", "3", "6">>
    /\ \A s \in Slots : ~Populated(objs["a"], s)

\* C10: _repr_png_ is a projection onto the thumbnail slot: it returns what
\* the image slot holds, fetching it through that slot when it is empty, so
\* _repr_png_ calls and image reads together make at most one successful
\* thumbnail call.
C10_ReprPng ==
    [][/\ \A i \in Inst : okCalls'[i]["image"] <= 1
       /\ last'.op = "_repr_png_" =>
            LET i == last'.inst
            IN  IF Populated(objs[i], "image")
                THEN /\ last'.calls = <<>>
                     /\ ~last'.raised
                     /\ last'.value = Stored(objs, i, "image")
                     /\ objs' = objs
                ELSE /\ Len(last'.calls) = 1
                     /\ last'.calls[1].slot = "image"
                     /\ last'.calls[1].method = "get_compound_thumbnail"
                     /\ IF last'.calls[1].ok
                        THEN /\ ~last'.raised
                             /\ Populated(objs'[i], "image")
                             /\ last'.value = Stored(objs', i, "image")
                        ELSE last'.raised /\ objs' = objs]_vars

\* the hook returned the thumbnail held in the slot, without a call
C10_Witness ==
    /\ last.op = "_repr_png_" /\ ~last.raised /\ last.calls = <<>>
    /\ okCalls["a"]["image"] = 1
    /\ last.value = Stored(objs, "a", "image")


\* C11: a newly constructed proxy is empty: construction calls the Client
\* for nothing and leaves the five slots unpopulated, and a slot becomes
\* populated only in a step that reads it.
C11_CreatedEmpty ==
    [][/\ last'.op = "__init__"
          => /\ last'.calls = <<>>
             /\ okCalls' = okCalls
             /\ ~last'.raised
                => \A s \in Slots : ~Populated(objs'[last'.inst], s)
       /\ \A i \in DOMAIN objs', s \in Slots :
            (Populated(objs'[i], s) /\ (i \in DOMAIN objs => ~Populated(objs[i], s)))
            => /\ last'.inst = i
               /\ SlotOfOp(last'.op) = s
               /\ Len(last'.calls) = 1]_vars

\* a proxy was constructed from an integer and holds nothing
C11_Witness ==
    /\ last.op = "__init__" /\ ~last.raised /\ last.arg = PyIntV(236)
    /\ last.calls = <<>>
    /\ \A s \in Slots : ~Populated(objs["a"], s) /\ okCalls["a"][s] = 0

\* the key of the mapping a field stands for, by the specification's table
KeyOfField(f) ==
    CASE f = "stdinchi" -> "inchi"
      [] f = "stdinchikey" -> "inchikey"
      [] OTHER -> f

\* the Client method behind a slot
MethodOfSlot(s) ==
    CASE s = "_compound_info" -> "get_compound_info"
      [] s = "_extended_compound_info" -> "get_extended_compound_info"
      [] s \in {"mol_2d", "mol_3d"} -> "get_record_mol"
      [] s = "image" -> "get_compound_thumbnail"

\* C12: a field accessor is a projection of its slot and key: smiles,
\* stdinchi and stdinchikey give the items smiles, inchi and inchikey of the
\* basic-info mapping, the other ten fields the items of their own name of
\* the extended-info mapping, each as the Client returned it; reading a
\* basic-info field leaves the extended-info slot as it was, and the reverse.
C12_FieldProjection ==
    [][last'.op \in Fields =>
          LET i == last'.inst
              f == last'.op
              e == SlotOfOp(f)
              o == IF e = "_compound_info" THEN "_extended_compound_info"
                   ELSE "_compound_info"
          IN  /\ ~last'.raised
                 => /\ Populated(objs'[i], e)
                    /\ KeyOfField(f) \in DOMAIN Stored(objs', i, e).val
                    /\ last'.value = Stored(objs', i, e).val[KeyOfField(f)]
                    /\ \E v \in Versions :
                         last'.value = PyData("item", <<MethodOfSlot(e),
                                              objs[i]["_csid"].val, KeyOfField(f), v>>)
              /\ Populated(objs'[i], o) = Populated(objs[i], o)
              /\ okCalls'[i][o] = okCalls[i][o]
              /\ \A k \in 1..Len(last'.calls) : last'.calls[k].slot = e]_vars

\* stdinchi gave the item inchi of the basic info, the extended info not fetched
C12_Witness ==
    /\ last.op = "stdinchi" /\ ~last.raised
    /\ last.value = PyData("item", <<"get_compound_info", 236, "inchi", "v2">>)
    /\ Populated(objs["a"], "_compound_info")
    /\ ~Populated(objs["a"], "_extended_compound_info")


\* the operations that return what a slot holds, whole
WholeReads(s) == IF s = "image" THEN {"image", "_repr_png_"} ELSE {s}

\* C13: a populated slot yields the value the first successful delegation
\* call for it returned: the fetch stores what the Client answered, the
\* stored value never changes, and every later access returns it without a
\* call, whatever the Client would answer by then.
C13_FirstValueKept ==
    [][\A i \in DOMAIN objs, s \in Slots :
          /\ Populated(objs[i], s)
             => /\ Populated(objs'[i], s)
                /\ Stored(objs', i, s) = Stored(objs, i, s)
                /\ (last'.inst = i /\ SlotOfOp(last'.op) = s) => last'.calls = <<>>
                /\ (last'.inst = i /\ last'.op \in WholeReads(s))
                   => ~last'.raised /\ last'.value = Stored(objs, i, s)
                /\ (last'.inst = i /\ last'.op \in Fields /\ SlotOfOp(last'.op) = s
                    /\ ~last'.raised)
                   => last'.value = Stored(objs, i, s).val[KeyOfField(last'.op)]
          /\ (~Populated(objs[i], s) /\ Populated(objs'[i], s))
             => /\ okCalls[i][s] = 0
                /\ Len(last'.calls) = 1
                /\ last'.calls[1].ok
                /\ Stored(objs', i, s) = last'.calls[1].ret]_vars

\* the 2D file fetched in version v1 was read again after the Client had
\* answered another request from version v2
C13_Witness ==
    /\ last.op = "mol_2d" /\ ~last.raised /\ last.calls = <<>>
    /\ last.value = PyData("mol", <<236, "False", "v1">>)
    /\ Stored(objs, "a", "mol_2d") = last.value
    /\ Populated(objs["a"], "image")
    /\ Stored(objs, "a", "image") = PyData("png", <<236, "v2">>)

\* C14: the proxy neither retries nor suppresses: one access to an
\* unpopulated slot makes exactly one delegation call, and when that call
\* raises, the access raises the same error, with no second call and
\* nothing stored.
C14_NoRetry ==
    [][LET i == last'.inst
           s == SlotOfOp(last'.op)
       IN  (s # "none" /\ i \in DOMAIN objs /\ ~Populated(objs[i], s))
           => /\ Len(last'.calls) = 1
              /\ last'.calls[1].slot = s
              /\ ~last'.calls[1].ok
                 => /\ last'.raised
                    /\ last'.value = last'.calls[1].ret
                    /\ objs' = objs
              /\ (last'.calls[1].ok /\ last'.op \in WholeReads(s))
                 => ~last'.raised /\ last'.value = last'.calls[1].ret]_vars

\* a field read of the unpopulated extended info raised the Client's error
\* after one call
C14_Witness ==
    /\ last.op = "xlogp" /\ last.raised
    /\ Len(last.calls) = 1 /\ ~last.calls[1].ok
    /\ last.value = last.calls[1].ret
    /\ failStreak.n = 1
    /\ ~Populated(objs["a"], "_extended_compound_info")


\* C16: cache state is per instance: a step on one Compound changes no slot
\* and no call count of another, also when the two have the same identifier
\* and share the Client, so each instance makes its own delegation call on
\* its first access to a slot.
C16_PerInstance ==
    [][\A i \in DOMAIN objs, j \in DOMAIN objs :
          (last'.inst = i /\ j # i)
          => /\ objs'[j] = objs[j]
             /\ okCalls'[j] = okCalls[j]
             /\ \A s \in Slots :
                  (SlotOfOp(last'.op) = s /\ ~Populated(objs[i], s))
                  => /\ Len(last'.calls) = 1
                     /\ last'.calls[1].slot = s]_vars

\* b fetched its own thumbnail although a, of the same identifier, held one
C16_Witness ==
    /\ objs["a"]["_csid"] = objs["b"]["_csid"]
    /\ last.op = "image" /\ last.inst = "b"
    /\ Len(last.calls) = 1 /\ last.calls[1].ok
    /\ okCalls["a"]["image"] = 1 /\ okCalls["b"]["image"] = 1
    /\ Populated(objs["a"], "image") /\ Populated(objs["b"], "image")

\* C17: a failed delegation call for one slot leaves the other slots of the
\* instance untouched: the populated ones keep their values and are read
\* without a call, the unpopulated ones stay unpopulated.
C17_FailureFrame ==
    [][/\ (\E k \in 1..Len(last'.calls) : ~last'.calls[k].ok)
          => /\ objs' = objs
             /\ okCalls' = okCalls
       /\ \A s \in Slots :
            (failStreak.n >= 1 /\ last'.inst = failStreak.inst
             /\ s # failStreak.slot /\ SlotOfOp(last'.op) = s
             /\ Populated(objs[last'.inst], s))
            => last'.calls = <<>>]_vars

\* the 3D file failed to load while the 2D file and the thumbnail were held
\* and the basic info was not
C17_Witness ==
    /\ last.op = "mol_3d" /\ last.raised
    /\ Len(last.calls) = 1 /\ ~last.calls[1].ok
    /\ Populated(objs["a"], "mol_2d") /\ Populated(objs["a"], "image")
    /\ ~Populated(objs["a"], "_compound_info") /\ ~Populated(objs["a"], "mol_3d")

\* C18: equality tests, csid reads and repr only observe: such a step makes
\* no delegation call and leaves every slot of every instance, both
\* operands of == among them, as it was.
C18_ObserveOnly ==
    [][last'.op \in {"__eq__", "csid", "__repr__"}
          => /\ last'.calls = <<>>
             /\ ~last'.raised
             /\ objs' = objs
             /\ okCalls' = okCalls]_vars

\* two instances of different identifiers, both holding data, were compared
C18_Witness ==
    /\ last.op = "__eq__" /\ last.inst = "a" /\ last.arg = PyRef("b")
    /\ ~last.value.val
    /\ Populated(objs["a"], "_compound_info") /\ Populated(objs["b"], "mol_2d")
    /\ okCalls["a"]["_compound_info"] = 1 /\ okCalls["b"]["mol_2d"] = 1

\* the instances of a state together with an empty proxy of every identifier
WithFresh(heap) ==
    heap @@ [n \in {"fresh2", "fresh236"} |->
               NewCompound(Client, PyIntV(IF n = "fresh2" THEN 2 ELSE 236)).self]

\* C19: equality among Compound instances is an equivalence relation:
\* reflexive, symmetric and transitive over the proxies of the identifiers
\* in use, whatever slots they have populated.
C19_EqEquivalence ==
    LET heap == WithFresh(objs)
        eq(i, j) == CompoundEq(heap[i], PyRef(j), heap).value.val
    IN  \A i \in DOMAIN heap :
          /\ eq(i, i)
          /\ \A j \in DOMAIN heap :
               /\ eq(i, j) = eq(j, i)
               /\ \A k \in DOMAIN heap : (eq(i, j) /\ eq(j, k)) => eq(i, k)

\* b, holding the basic info, was found equal to a, which holds none
C19_Witness ==
    /\ last.op = "__eq__" /\ last.inst = "b" /\ last.arg = PyRef("a")
    /\ last.value.val
    /\ Populated(objs["b"], "_compound_info") /\ ~Populated(objs["a"], "_compound_info")
    /\ Populated(objs["a"], "mol_3d")


\* the threads about to run the function of slot s of instance i
AtCall(i, s) == {t \in Threads : thr[t].at = "call" /\ thr[t].inst = i /\ thr[t].slot = s}

\* C15: under concurrent reads the at-most-once guarantee is lost, and no
\* more than that: each thread that found the slot unpopulated makes its own
\* successful call, so with two threads a slot sees up to two successful
\* calls, one per thread; the state with two is reached.
C15_OnePerThread ==
    \A i \in DOMAIN objs, s \in Slots :
        /\ okCalls[i][s] + Cardinality(AtCall(i, s)) <= Cardinality(Threads)
        /\ okCalls[i][s] >= 1
           => \/ Populated(objs[i], s)
              \/ \E t \in Threads :
                   thr[t].at = "store" /\ thr[t].inst = i /\ thr[t].slot = s

\* both threads found the thumbnail slot unpopulated, and the Client
\* returned it twice, the second time from another version
C15_Witness ==
    /\ okCalls["a"]["image"] = 2
    /\ thr["t1"].at = "store" /\ thr["t1"].slot = "image"
    /\ thr["t2"].at = "store" /\ thr["t2"].slot = "image"
    /\ thr["t1"].val # thr["t2"].val
    /\ ~Populated(objs["a"], "image")

\* what one caller is promised, C1, asked of two threads: at most one
\* successful call for a slot
C15_AtMostOnceThreads == \A i \in Inst, s \in Slots : okCalls[i][s] <= 1

====
